---- MODULE Spec2Model ----
(***************************************************************************)
(* The deletion engine of cloud-nuke (cloudcontrol fork):                  *)
(*   aws/aws.go          NukeAllResources, nukeAllResourcesInRegion, split *)
(*   unnamed/part_000    AwsResource.Nuke, nukeAsync,                      *)
(*                       RetryGetResourceRequestStatus (first copy, the    *)
(*                       one whose Nuke signature aws.go calls),           *)
(*                       NewQuery, Query.Validate                          *)
(*   aws/aws.go          GetTargetRegions, GetEnabledRegions,              *)
(*                       retryDescribeRegions                              *)
(* The remote cloudcontrol API is the environment: every call answers      *)
(* nondeterministically from the small response sets below.                *)
(***************************************************************************)
EXTENDS Bags, FiniteSets, Integers, Sequences, TLC

VARIABLES
    account,      \* *AwsAccountResources: region -> <<AwsResource, ...>>
    regions,      \* the regions argument of NukeAllResources
    pc,           \* control point of the (single) engine goroutine
    ri,           \* NukeAllResources: index of the region being processed
    ti,           \* nukeAllResourcesInRegion: index into resourcesInRegion.Resources
    batches,      \* nukeAllResourcesInRegion: split(...) of the current type
    bi,           \* nukeAllResourcesInRegion: loop variable i (1-based here)
    tableData,    \* nukeAllResourcesInRegion: the region's table
    tasks,        \* Nuke: one nukeAsync goroutine per identifier of the batch
    resultChans,  \* Nuke: resultChans[k], a channel of capacity 1
    wg,           \* Nuke: the WaitGroup counter
    resultsMap,   \* Nuke: Identifier -> AwsResourceResult
    allErrs,      \* Nuke: the multierror being built
    ci,           \* Nuke: position of the loops over identifiers / resultChans
    nukeRet,      \* what Nuke returned to nukeAllResourcesInRegion
    ret,          \* what NukeAllResources returned
    events,       \* history: Nuke invocations, sleeps and table renders, in order
    deleteCalls,  \* history: bag of <<region, type, identifier>> DeleteResource was called for
    idErrs,       \* history: the non-nil Errors of finalized outcomes
    callArgs,     \* a direct call of split, GetTargetRegions or Query.Validate: its arguments
    callRet       \* what that call returned

vars == <<account, regions, pc, ri, ti, batches, bi, tableData, tasks, resultChans,
          wg, resultsMap, allErrs, ci, nukeRet, ret, events, deleteCalls, idErrs,
          callArgs, callRet>>

callVars   == <<callArgs, callRet>>
engineVars == <<ri, ti, batches, bi, tableData>>
nukeVars   == <<tasks, resultChans, wg, resultsMap, allErrs, ci>>

(***************************************************************************)
(* Bounds and constants                                                    *)
(***************************************************************************)

\* AwsResource.MaxBatchSize() returns 50 in the source; the model is checked
\* with a small batch size so that a resource type spans several batches.
MaxBatchSize == 2

\* Direct calls of split: identifier lists of up to MaxIdentifiers entries
\* drawn from 1..MaxIdentifier (so with repetitions), limits in
\* -MaxLimit..MaxLimit.
MaxIdentifiers == 4
MaxIdentifier == 3
MaxLimit == 3

\* Direct calls of GetTargetRegions: each of the three lists has up to
\* MaxRegions entries drawn from RegionNames.
MaxRegions == 2

\* Direct calls of the AwsRegionResource lookups: a region holds up to
\* MaxResources AwsResource entries of up to MaxResources identifiers each.
MaxResources == 2

GlobalRegion == "global"
defaultRegion == "us-east-1"

RegionNames == {"us-east-1", "eu-west-1", GlobalRegion}

Ids(n) == [i \in 1..n |-> i]

\* The inventory handed to NukeAllResources: one type that needs two batches,
\* one type with no identifiers (GetAllResources records those too), and a
\* second region with a single identifier.
Inventory ==
    ("us-east-1" :> << [TypeName |-> "AWS::Logs::LogGroup", Identifiers |-> Ids(MaxBatchSize + 1)],
                       [TypeName |-> "AWS::IAM::Role",      Identifiers |-> <<>>] >>)
    @@
    ("eu-west-1" :> << [TypeName |-> "AWS::IAM::Role",      Identifiers |-> Ids(1)] >>)

RegionLists == { <<"us-east-1", GlobalRegion, "eu-west-1">>, <<"eu-west-1">> }

(***************************************************************************)
(* Errors                                                                  *)
(***************************************************************************)

NilErr == [code |-> "nil", call |-> "nil", id |-> 0, detail |-> <<>>]

ApiErr(code, call, id) == [code |-> code, call |-> call, id |-> id, detail |-> <<>>]

\* TooManyResourcesTargetedErr{numTargets: n}
TooManyResourcesTargetedErr(n) ==
    [code |-> "TooManyResourcesTargeted", call |-> "Nuke", id |-> n, detail |-> <<>>]

\* strings.Contains(err.Error(), "RequestLimitExceeded") on a multierror: the
\* text of a multierror is the concatenation of the texts of its parts.
ContainsRequestLimitExceeded(errs) ==
    \E i \in DOMAIN errs : errs[i].code = "RequestLimitExceeded"

(***************************************************************************)
(* The remote API's answers                                                *)
(***************************************************************************)

\* Error codes an API call may fail with; "ok" is success.
DeleteResponses == {"ok", "RequestLimitExceeded", "InternalFailure"}
StatusResponses == {"ok", "RequestLimitExceeded", "InternalFailure"}

NoEvent == [Operation |-> "", OperationStatus |-> "", ErrorCode |-> "", StatusMessage |-> ""]

Event(status, code, msg) ==
    [Operation |-> "DELETE", OperationStatus |-> status, ErrorCode |-> code, StatusMessage |-> msg]

\* What the provider reports for a delete request when polling ends.
ProgressEvents ==
    { Event("SUCCESS", "", "deleted"),
      Event("CANCEL_COMPLETE", "", "cancelled"),
      Event("FAILED", "NotFound", "not found"),
      Event("FAILED", "AccessDenied", "denied"),
      Event("IN_PROGRESS", "", "working") }

(***************************************************************************)
(* GetTargetRegions                                                        *)
(***************************************************************************)

\* collections.ListContainsElement
ListContainsElement(list, element) == \E i \in DOMAIN list : list[i] = element

\* return targetRegions, nil
RegionsOk(targetRegions) == [regions |-> targetRegions, err |-> NilErr]

\* return nil, fmt.Errorf(...): detail is the list the message prints.
RegionsErr(code, detail) ==
    [regions |-> <<>>,
     err |-> [code |-> code, call |-> "GetTargetRegions", id |-> 0, detail |-> detail]]

\* The check that selected and excluded are not both given is left out.
GetTargetRegions_NoExclusivityCheck(enabledRegions, selectedRegions, excludedRegions) ==
    LET invalidSelected == SelectSeq(selectedRegions,
                               LAMBDA r : ~ListContainsElement(enabledRegions, r))
        invalidExcluded == invalidSelected \o
                           SelectSeq(excludedRegions,
                               LAMBDA r : ~ListContainsElement(enabledRegions, r))
        targetRegions == IF Len(excludedRegions) > 0
                         THEN SelectSeq(enabledRegions,
                                  LAMBDA r : ~ListContainsElement(excludedRegions, r))
                         ELSE <<>>
    IN  IF Len(enabledRegions) = 0
        THEN RegionsErr("EmptyEnabledRegions", <<>>)
        ELSE IF Len(selectedRegions) = 0 /\ Len(excludedRegions) = 0
        THEN RegionsOk(enabledRegions)
        ELSE IF Len(invalidSelected) > 0
        THEN RegionsErr("InvalidRegion", invalidSelected)
        ELSE IF Len(selectedRegions) > 0
        THEN RegionsOk(selectedRegions)
        ELSE IF Len(invalidExcluded) > 0
        THEN RegionsErr("InvalidExcludeRegion", invalidExcluded)
        ELSE IF Len(targetRegions) = 0
        THEN RegionsErr("CannotExcludeAllRegions", excludedRegions)
        ELSE RegionsOk(targetRegions)

\* The error for invalid selected regions lists every selected region.
GetTargetRegions_ErrorListsAllSelected(enabledRegions, selectedRegions, excludedRegions) ==
    LET invalidSelected == SelectSeq(selectedRegions,
                               LAMBDA r : ~ListContainsElement(enabledRegions, r))
        invalidExcluded == invalidSelected \o
                           SelectSeq(excludedRegions,
                               LAMBDA r : ~ListContainsElement(enabledRegions, r))
        targetRegions == IF Len(excludedRegions) > 0
                         THEN SelectSeq(enabledRegions,
                                  LAMBDA r : ~ListContainsElement(excludedRegions, r))
                         ELSE <<>>
    IN  IF Len(enabledRegions) = 0
        THEN RegionsErr("EmptyEnabledRegions", <<>>)
        ELSE IF Len(selectedRegions) = 0 /\ Len(excludedRegions) = 0
        THEN RegionsOk(enabledRegions)
        ELSE IF Len(selectedRegions) > 0 /\ Len(excludedRegions) > 0
        THEN RegionsErr("BothSelectedAndExcluded", <<>>)
        ELSE IF Len(invalidSelected) > 0
        THEN RegionsErr("InvalidRegion", selectedRegions)
        ELSE IF Len(selectedRegions) > 0
        THEN RegionsOk(selectedRegions)
        ELSE IF Len(invalidExcluded) > 0
        THEN RegionsErr("InvalidExcludeRegion", invalidExcluded)
        ELSE IF Len(targetRegions) = 0
        THEN RegionsErr("CannotExcludeAllRegions", excludedRegions)
        ELSE RegionsOk(targetRegions)

\* The check that some region is left after the exclusion is left out.
GetTargetRegions_NoExcludeAllCheck(enabledRegions, selectedRegions, excludedRegions) ==
    LET invalidSelected == SelectSeq(selectedRegions,
                               LAMBDA r : ~ListContainsElement(enabledRegions, r))
        invalidExcluded == invalidSelected \o
                           SelectSeq(excludedRegions,
                               LAMBDA r : ~ListContainsElement(enabledRegions, r))
        targetRegions == IF Len(excludedRegions) > 0
                         THEN SelectSeq(enabledRegions,
                                  LAMBDA r : ~ListContainsElement(excludedRegions, r))
                         ELSE <<>>
    IN  IF Len(enabledRegions) = 0
        THEN RegionsErr("EmptyEnabledRegions", <<>>)
        ELSE IF Len(selectedRegions) = 0 /\ Len(excludedRegions) = 0
        THEN RegionsOk(enabledRegions)
        ELSE IF Len(selectedRegions) > 0 /\ Len(excludedRegions) > 0
        THEN RegionsErr("BothSelectedAndExcluded", <<>>)
        ELSE IF Len(invalidSelected) > 0
        THEN RegionsErr("InvalidRegion", invalidSelected)
        ELSE IF Len(selectedRegions) > 0
        THEN RegionsOk(selectedRegions)
        ELSE IF Len(invalidExcluded) > 0
        THEN RegionsErr("InvalidExcludeRegion", invalidExcluded)
        ELSE RegionsOk(targetRegions)

\* The selected regions are returned without being looked up in the enabled list.
GetTargetRegions_NoMembershipCheck(enabledRegions, selectedRegions, excludedRegions) ==
    LET invalidExcluded == SelectSeq(excludedRegions,
                               LAMBDA r : ~ListContainsElement(enabledRegions, r))
        targetRegions == IF Len(excludedRegions) > 0
                         THEN SelectSeq(enabledRegions,
                                  LAMBDA r : ~ListContainsElement(excludedRegions, r))
                         ELSE <<>>
    IN  IF Len(enabledRegions) = 0
        THEN RegionsErr("EmptyEnabledRegions", <<>>)
        ELSE IF Len(selectedRegions) = 0 /\ Len(excludedRegions) = 0
        THEN RegionsOk(enabledRegions)
        ELSE IF Len(selectedRegions) > 0 /\ Len(excludedRegions) > 0
        THEN RegionsErr("BothSelectedAndExcluded", <<>>)
        ELSE IF Len(selectedRegions) > 0
        THEN RegionsOk(selectedRegions)
        ELSE IF Len(invalidExcluded) > 0
        THEN RegionsErr("InvalidExcludeRegion", invalidExcluded)
        ELSE IF Len(targetRegions) = 0
        THEN RegionsErr("CannotExcludeAllRegions", excludedRegions)
        ELSE RegionsOk(targetRegions)

\* aws.go 158-211.  invalidRegions is one list shared by both validation
\* loops; a failure returns a nil list.
GetTargetRegions(enabledRegions, selectedRegions, excludedRegions) ==
    LET invalidSelected == SelectSeq(selectedRegions,
                               LAMBDA r : ~ListContainsElement(enabledRegions, r))
        invalidExcluded == invalidSelected \o
                           SelectSeq(excludedRegions,
                               LAMBDA r : ~ListContainsElement(enabledRegions, r))
        targetRegions == IF Len(excludedRegions) > 0
                         THEN SelectSeq(enabledRegions,
                                  LAMBDA r : ~ListContainsElement(excludedRegions, r))
                         ELSE <<>>
    IN  IF Len(enabledRegions) = 0
        THEN RegionsErr("EmptyEnabledRegions", <<>>)
        ELSE IF Len(selectedRegions) = 0 /\ Len(excludedRegions) = 0
        THEN RegionsOk(enabledRegions)
        ELSE IF Len(selectedRegions) > 0 /\ Len(excludedRegions) > 0
        THEN RegionsErr("BothSelectedAndExcluded", <<>>)
        ELSE IF Len(invalidSelected) > 0
        THEN RegionsErr("InvalidRegion", invalidSelected)
        ELSE IF Len(selectedRegions) > 0
        THEN RegionsOk(selectedRegions)
        ELSE IF Len(invalidExcluded) > 0
        THEN RegionsErr("InvalidExcludeRegion", invalidExcluded)
        ELSE IF Len(targetRegions) = 0
        THEN RegionsErr("CannotExcludeAllRegions", excludedRegions)
        ELSE RegionsOk(targetRegions)

(***************************************************************************)
(* GetEnabledRegions and Query.Validate                                    *)
(***************************************************************************)

OptInNotRequiredRegions ==
    << "eu-north-1", "ap-south-1", "eu-west-3", "eu-west-2", "eu-west-1",
       "ap-northeast-3", "ap-northeast-2", "ap-northeast-1", "sa-east-1",
       "ca-central-1", "ap-southeast-1", "ap-southeast-2", "eu-central-1",
       "us-east-1", "us-east-2", "us-west-1", "us-west-2" >>

GovCloudRegions == << "us-gov-east-1", "us-gov-west-1" >>

regionsToTry == OptInNotRequiredRegions \o GovCloudRegions

\* What the environment answers to the probe of each candidate region:
\* "loadConfigErr" (newConfig fails), "err" (DescribeRegions fails) or "ok".
\* The loop sees the answers up to the first one that is not "err", so the
\* answers are drawn as: DescribeRegions fails for the candidates before
\* position k, and candidate k (if there is one) answers how.
Probes ==
    { [i \in DOMAIN regionsToTry |-> IF i < k THEN "err" ELSE how] :
          k \in 1..(Len(regionsToTry) + 1), how \in {"ok", "loadConfigErr"} }

\* The region names DescribeRegions may return.
DescribeRegionsAnswers == { <<"us-east-1", "eu-west-1">>, <<"eu-west-1">>, <<>> }

\* The loop gives up at the first candidate whose DescribeRegions call fails.
RECURSIVE retryDescribeRegionsLoop_NoRetry(_, _, _)
retryDescribeRegionsLoop_NoRetry(i, probes, answer) ==
    IF i > Len(regionsToTry)
    THEN [regions |-> <<>>, tried |-> i - 1,
          err |-> ApiErr("NoEnabledRegions", "retryDescribeRegions", 0)]
    ELSE IF probes[i] = "loadConfigErr"
    THEN [regions |-> <<>>, tried |-> i, err |-> ApiErr("LoadConfig", "newConfig", 0)]
    ELSE IF probes[i] = "err"
    THEN [regions |-> <<>>, tried |-> i,
          err |-> ApiErr("NoEnabledRegions", "retryDescribeRegions", 0)]
    ELSE [regions |-> answer, tried |-> i, err |-> NilErr]

\* The loop of lines 69-81 from candidate i on; tried is the number of
\* candidates newConfig was called for.
RECURSIVE retryDescribeRegionsLoop(_, _, _)
retryDescribeRegionsLoop(i, probes, answer) ==
    IF i > Len(regionsToTry)
    THEN [regions |-> <<>>, tried |-> i - 1,
          err |-> ApiErr("NoEnabledRegions", "retryDescribeRegions", 0)]
    ELSE IF probes[i] = "loadConfigErr"
    THEN [regions |-> <<>>, tried |-> i, err |-> ApiErr("LoadConfig", "newConfig", 0)]
    ELSE IF probes[i] = "err"
    THEN retryDescribeRegionsLoop(i + 1, probes, answer)
    ELSE [regions |-> answer, tried |-> i, err |-> NilErr]

retryDescribeRegions(probes, answer) == retryDescribeRegionsLoop(1, probes, answer)

\* GetEnabledRegions: the names of the regions retryDescribeRegions returned.
GetEnabledRegions(probes, answer) ==
    LET out == retryDescribeRegions(probes, answer)
    IN  IF out.err # NilErr
        THEN [regions |-> <<>>, err |-> out.err, tried |-> out.tried]
        ELSE [regions |-> [i \in DOMAIN out.regions |-> out.regions[i]], err |-> NilErr,
              tried |-> out.tried]

\* The resource types the registry supports and the type lists a Query is
\* built with.
ResourceTypeCatalog == << "AWS::IAM::Role", "AWS::Logs::LogGroup" >>
ResourceTypeLists == { <<>>, <<"AWS::Logs::LogGroup">>, <<"AWS::Bogus::Type">> }

\* HandleResourceTypeSelections: the include / exclude rules of the regions,
\* applied to resource types against the catalog.
HandleResourceTypeSelections(includeTypes, excludeTypes) ==
    LET invalid(list) == SelectSeq(list, LAMBDA t : ~ListContainsElement(ResourceTypeCatalog, t))
        fail(code, detail) ==
            [types |-> <<>>,
             err |-> [code |-> code, call |-> "HandleResourceTypeSelections", id |-> 0,
                      detail |-> detail]]
    IN  IF Len(includeTypes) > 0 /\ Len(excludeTypes) > 0
        THEN fail("BothIncludedAndExcluded", <<>>)
        ELSE IF Len(invalid(includeTypes)) > 0
        THEN fail("InvalidResourceType", invalid(includeTypes))
        ELSE IF Len(includeTypes) > 0
        THEN [types |-> includeTypes, err |-> NilErr]
        ELSE IF Len(invalid(excludeTypes)) > 0
        THEN fail("InvalidResourceType", invalid(excludeTypes))
        ELSE [types |-> SelectSeq(ResourceTypeCatalog,
                            LAMBDA t : ~ListContainsElement(excludeTypes, t)),
              err |-> NilErr]

\* CouldNotDetermineEnabledRegionsError{Underlying: err}
CouldNotDetermineEnabledRegionsError(underlying) ==
    [code |-> "CouldNotDetermineEnabledRegions", call |-> "Validate", id |-> 0,
     detail |-> <<underlying>>]

\* CouldNotSelectRegionError{Underlying: err}
CouldNotSelectRegionError(underlying) ==
    [code |-> "CouldNotSelectRegion", call |-> "Validate", id |-> 0, detail |-> <<underlying>>]

(***************************************************************************)
(* AwsRegionResource lookups                                               *)
(***************************************************************************)

\* The resource type names the lookups are exercised with.
TypeNames == {"AWS::Logs::LogGroup", "aws::logs::loggroup", "ec2"}

\* strings.ToLower on those names.
ToLower(s) ==
    CASE s = "AWS::Logs::LogGroup" -> "aws::logs::loggroup"
      [] s = "AWS::IAM::Role" -> "aws::iam::role"
      [] OTHER -> s

\* The loop of MapResourceNameToIdentifiers over arr.Resources from position i on.
RECURSIVE MapResourceNameToIdentifiersLoop(_, _, _)
MapResourceNameToIdentifiersLoop(resources, i, m) ==
    IF i > Len(resources) THEN m
    ELSE LET name == resources[i].TypeName
             ids == resources[i].Identifiers
         IN  MapResourceNameToIdentifiersLoop(resources, i + 1,
                 IF Len(ids) > 0
                 THEN (name :> ((IF name \in DOMAIN m THEN m[name] ELSE <<>>) \o ids)) @@ m
                 ELSE m)

MapResourceNameToIdentifiers(arr) == MapResourceNameToIdentifiersLoop(arr, 1, <<>>)

CountOfResourceType(arr, resourceType) ==
    LET idMap == MapResourceNameToIdentifiers(arr)
        key == ToLower(resourceType)
    IN  IF key \in DOMAIN idMap THEN Len(idMap[key]) ELSE 0

ResourceTypePresent(arr, resourceType) == CountOfResourceType(arr, resourceType) > 0

IdentifiersForResourceType(arr, resourceType) ==
    LET idMap == MapResourceNameToIdentifiers(arr)
        key == ToLower(resourceType)
    IN  IF key \in DOMAIN idMap THEN idMap[key] ELSE <<>>

(***************************************************************************)
(* split                                                                   *)
(***************************************************************************)

\* The identifiers left over after the last full chunk are dropped.
RECURSIVE splitLoop_DropRemainder(_, _, _)
splitLoop_DropRemainder(identifiers, limit, chunks) ==
    IF Len(identifiers) >= limit
    THEN splitLoop_DropRemainder(SubSeq(identifiers, limit + 1, Len(identifiers)), limit,
                                 Append(chunks, SubSeq(identifiers, 1, limit)))
    ELSE chunks

RECURSIVE splitLoop(_, _, _)
splitLoop(identifiers, limit, chunks) ==
    IF Len(identifiers) >= limit
    THEN splitLoop(SubSeq(identifiers, limit + 1, Len(identifiers)), limit,
                   Append(chunks, SubSeq(identifiers, 1, limit)))
    ELSE IF Len(identifiers) > 0 THEN Append(chunks, identifiers) ELSE chunks

\* A limit of zero is treated as a limit of one.
split_ZeroLimitAsOne(identifiers, limit) ==
    IF limit = 0 THEN splitLoop(identifiers, 1, <<>>)
    ELSE splitLoop(identifiers, IF limit < 0 THEN -1 * limit ELSE limit, <<>>)

split(identifiers, limit) ==
    IF limit = 0 THEN <<identifiers>>
    ELSE splitLoop(identifiers, IF limit < 0 THEN -1 * limit ELSE limit, <<>>)

(***************************************************************************)
(* nukeAsync and the waiter                                                *)
(***************************************************************************)

\* AwsResourceResult{TypeName: typeName, Identifier: identifier, Error: nil}
NewAwsResourceResult(typeName, identifier) ==
    [TypeName |-> typeName, Identifier |-> identifier, Operation |-> "",
     OperationStatus |-> "", StatusMessage |-> "", Error |-> NilErr]

truncateText(s, max) == IF Len(s) < max THEN s ELSE SubSeq(s, 1, max)

\* fmt.Errorf("waiter state transitioned to %s. StatusMessage: %s. ErrorCode: %s", ...)
WaiterStateErr(ev) ==
    [code |-> "WaiterState", call |-> "WaitForOutput", id |-> 0,
     detail |-> <<ev.OperationStatus, ev.StatusMessage, ev.ErrorCode>>]

\* The waiter's "exceeded max wait time" error after maxWaitDur (10 minutes).
WaiterTimeoutErr == [code |-> "WaiterTimeout", call |-> "WaitForOutput", id |-> 0, detail |-> <<>>]

\* The retryable function: (output, err) -> (retry, err).
RetryGetResourceRequestStatus(output, err) ==
    IF err = NilErr
    THEN IF output.OperationStatus \in {"SUCCESS", "CANCEL_COMPLETE"}
         THEN [retry |-> FALSE, err |-> NilErr]
         ELSE IF output.OperationStatus = "FAILED"
         THEN IF output.ErrorCode = "NotFound" /\ output.Operation = "DELETE"
              THEN [retry |-> FALSE, err |-> NilErr]
              ELSE [retry |-> FALSE, err |-> WaiterStateErr(output)]
         ELSE [retry |-> TRUE, err |-> err]
    ELSE [retry |-> TRUE, err |-> err]

\* waiter.WaitForOutput with o.Retryable = RetryGetResourceRequestStatus(nil):
\* (output, err) is the answer of the poll on which waiting ends.  An error of
\* the retryable ends the wait with it, "do not retry" ends it successfully,
\* and a poll that still asks to retry when the time is up is a timeout.
WaitForOutput(output, err) ==
    LET r == RetryGetResourceRequestStatus(output, err)
    IN  IF r.err # NilErr THEN r.err
        ELSE IF ~r.retry THEN NilErr
        ELSE WaiterTimeoutErr

\* The polls on which waiting can end: the provider's view of the request, and
\* whether the poll call itself failed.
PollResponses ==
    { [output |-> e, err |-> NilErr] : e \in ProgressEvents }
    \cup { [output |-> Event("IN_PROGRESS", "", "working"),
            err |-> ApiErr("InternalFailure", "GetResourceRequestStatus", 0)] }

\* Lines 252-267: the outcome from the answer of the final GetResourceRequestStatus.
\* statusOutput = NoEvent stands for a nil output.  waitErr is not used: the
\* source builds an error from it with fmt.Errorf and discards it.
FinalResult(res, statusOutput, getStatusErr, waitErr) ==
    IF statusOutput # NoEvent
    THEN [res EXCEPT !.Operation = truncateText(statusOutput.Operation, 25),
                     !.OperationStatus = truncateText(statusOutput.OperationStatus, 25),
                     !.StatusMessage = truncateText(statusOutput.StatusMessage, 60),
                     !.Error = getStatusErr]
    ELSE [res EXCEPT !.OperationStatus = "Not Available",
                     !.StatusMessage = "Not Available",
                     !.Error = getStatusErr]

CurRegion == regions[ri]

\* A region without an entry falls back to the entry of the default region.
ResourcesInRegion_DefaultFallback(region) ==
    IF region \in DOMAIN account THEN account[region] ELSE account[defaultRegion]

\* account.Resources[region].Resources: a missing key is the zero value.
ResourcesInRegion(region) == IF region \in DOMAIN account THEN account[region] ELSE <<>>

CurResource == ResourcesInRegion(CurRegion)[ti]

NoteErr(res) ==
    IF res.Error # NilErr
    THEN idErrs \cup {[region |-> CurRegion, type |-> res.TypeName, id |-> res.Identifier, err |-> res.Error]}
    ELSE idErrs

\* The submission-failure path records the error and falls through to polling.
nukeAsyncDelete_FallThrough(k) ==
    /\ k \in DOMAIN tasks
    /\ tasks[k].pc = "delete"
    /\ \E resp \in DeleteResponses :
         LET t == tasks[k]
             failed == [t.res EXCEPT !.Error = ApiErr(resp, "DeleteResource", t.id)]
         IN  /\ deleteCalls' = deleteCalls (+) SetToBag({<<CurRegion, t.res.TypeName, t.id>>})
             /\ IF resp # "ok"
                THEN /\ tasks' = [tasks EXCEPT ![k].res = failed, ![k].pc = "wait"]
                     /\ UNCHANGED <<resultChans, idErrs>>
                ELSE /\ tasks' = [tasks EXCEPT ![k].pc = "wait"]
                     /\ UNCHANGED <<resultChans, idErrs>>
    /\ UNCHANGED <<account, regions, pc, engineVars, wg, resultsMap, allErrs, ci, nukeRet, ret, events>>

\* The submission-failure path returns without sending the outcome.
nukeAsyncDelete_NoSendOnFailure(k) ==
    /\ k \in DOMAIN tasks
    /\ tasks[k].pc = "delete"
    /\ \E resp \in DeleteResponses :
         LET t == tasks[k]
             failed == [t.res EXCEPT !.Error = ApiErr(resp, "DeleteResource", t.id)]
         IN  /\ deleteCalls' = deleteCalls (+) SetToBag({<<CurRegion, t.res.TypeName, t.id>>})
             /\ IF resp # "ok"
                THEN /\ tasks' = [tasks EXCEPT ![k].res = failed, ![k].pc = "signal"]
                     /\ idErrs' = NoteErr(failed)
                     /\ UNCHANGED resultChans
                ELSE /\ tasks' = [tasks EXCEPT ![k].pc = "wait"]
                     /\ UNCHANGED <<resultChans, idErrs>>
    /\ UNCHANGED <<account, regions, pc, engineVars, wg, resultsMap, allErrs, ci, nukeRet, ret, events>>

\* nukeAsync, lines 209-228: DeleteResource; on failure the error is recorded,
\* the outcome is sent and the goroutine returns.
nukeAsyncDelete(k) ==
    /\ k \in DOMAIN tasks
    /\ tasks[k].pc = "delete"
    /\ \E resp \in DeleteResponses :
         LET t == tasks[k]
             failed == [t.res EXCEPT !.Error = ApiErr(resp, "DeleteResource", t.id)]
         IN  /\ deleteCalls' = deleteCalls (+) SetToBag({<<CurRegion, t.res.TypeName, t.id>>})
             /\ IF resp # "ok"
                THEN /\ Len(resultChans[k]) < 1
                     /\ resultChans' = [resultChans EXCEPT ![k] = Append(@, failed)]
                     /\ tasks' = [tasks EXCEPT ![k].res = failed, ![k].pc = "signal"]
                     /\ idErrs' = NoteErr(failed)
                ELSE /\ tasks' = [tasks EXCEPT ![k].pc = "wait"]
                     /\ UNCHANGED <<resultChans, idErrs>>
    /\ UNCHANGED <<account, regions, pc, engineVars, wg, resultsMap, allErrs, ci, nukeRet, ret, events>>

\* nukeAsync, lines 230-248: wait for the request to reach a terminal state.
nukeAsyncWait(k) ==
    /\ k \in DOMAIN tasks
    /\ tasks[k].pc = "wait"
    /\ \E poll \in PollResponses :
         tasks' = [tasks EXCEPT ![k].obs = poll.output,
                                ![k].waitErr = WaitForOutput(poll.output, poll.err),
                                ![k].pc = "status"]
    /\ UNCHANGED <<account, regions, pc, engineVars, resultChans, wg, resultsMap, allErrs, ci,
                   nukeRet, ret, events, deleteCalls, idErrs>>

\* The result channel is unbuffered: the send waits for the collector to
\* be receiving from this channel.
nukeAsyncStatus_Unbuffered(k) ==
    /\ k \in DOMAIN tasks
    /\ tasks[k].pc = "status"
    /\ pc = "collect"
    /\ ci = k
    /\ \E resp \in StatusResponses :
         LET t == tasks[k]
             statusOutput == IF resp = "ok" THEN t.obs ELSE NoEvent
             getStatusErr == IF resp = "ok" THEN NilErr
                             ELSE ApiErr(resp, "GetResourceRequestStatus", t.id)
             final == FinalResult(t.res, statusOutput, getStatusErr, t.waitErr)
         IN  /\ tasks' = [tasks EXCEPT ![k].res = final, ![k].pc = "signal"]
             /\ resultChans' = [resultChans EXCEPT ![k] = Append(@, final)]
             /\ idErrs' = NoteErr(final)
    /\ UNCHANGED <<account, regions, pc, engineVars, wg, resultsMap, allErrs, ci, nukeRet, ret,
                   events, deleteCalls>>

\* nukeAsync, lines 250-268: fetch the status once more, fill in the outcome
\* and send it.  A failed call returns no output.
nukeAsyncStatus(k) ==
    /\ k \in DOMAIN tasks
    /\ tasks[k].pc = "status"
    /\ Len(resultChans[k]) < 1
    /\ \E resp \in StatusResponses :
         LET t == tasks[k]
             statusOutput == IF resp = "ok" THEN t.obs ELSE NoEvent
             getStatusErr == IF resp = "ok" THEN NilErr
                             ELSE ApiErr(resp, "GetResourceRequestStatus", t.id)
             final == FinalResult(t.res, statusOutput, getStatusErr, t.waitErr)
         IN  /\ tasks' = [tasks EXCEPT ![k].res = final, ![k].pc = "signal"]
             /\ resultChans' = [resultChans EXCEPT ![k] = Append(@, final)]
             /\ idErrs' = NoteErr(final)
    /\ UNCHANGED <<account, regions, pc, engineVars, wg, resultsMap, allErrs, ci, nukeRet, ret,
                   events, deleteCalls>>

\* defer wg.Done()
nukeAsyncDone(k) ==
    /\ k \in DOMAIN tasks
    /\ tasks[k].pc = "signal"
    /\ tasks' = [tasks EXCEPT ![k].pc = "done"]
    /\ wg' = wg - 1
    /\ UNCHANGED <<account, regions, pc, engineVars, resultChans, resultsMap, allErrs, ci,
                   nukeRet, ret, events, deleteCalls, idErrs>>

(***************************************************************************)
(* AwsResource.Nuke                                                        *)
(***************************************************************************)

NukeEvent(region, type, i, batch) ==
    [kind |-> "Nuke", region |-> region, type |-> type, i |-> i, batch |-> batch,
     secs |-> 0, table |-> <<>>]
SleepEvent(secs) ==
    [kind |-> "Sleep", region |-> "", type |-> "", i |-> 0, batch |-> <<>>,
     secs |-> secs, table |-> <<>>]
RenderEvent(region, table) ==
    [kind |-> "Render", region |-> region, type |-> "", i |-> 0, batch |-> <<>>,
     secs |-> 0, table |-> table]

NoRet == [tableData |-> <<>>, err |-> <<>>]

colorTypeAndIdentifier(typeName, identifier) == <<typeName, identifier>>

colorOperationStatus(s) == IF s = "SUCCESS" THEN <<"green", s>> ELSE <<"red", s>>

\* One row of Nuke's table, lines 171-184.
Row(identifier, result) ==
    << colorTypeAndIdentifier(result.TypeName, identifier),
       result.Operation,
       colorOperationStatus(result.OperationStatus),
       result.StatusMessage,
       IF result.Error # NilErr THEN result.Error.code ELSE "nil" >>

\* The orders in which "for identifier, result := range resultsMap" may visit a map.
Orderings(S) ==
    { o \in [1..Cardinality(S) -> S] : \A i, j \in 1..Cardinality(S) : i # j => o[i] # o[j] }

\* The length check against MaxBatchSize is left out.
NukeCall_NoLimit ==
    /\ pc = "batch"
    /\ bi <= Len(batches)
    /\ LET batch == batches[bi]
           n == Len(batch)
       IN  /\ events' = Append(events, NukeEvent(CurRegion, CurResource.TypeName, bi, batch))
           /\ tasks' = [k \in 1..n |->
                          [pc |-> "none", id |-> batch[k], obs |-> NoEvent,
                           waitErr |-> NilErr,
                           res |-> NewAwsResourceResult(CurResource.TypeName, batch[k])]]
           /\ resultChans' = [k \in 1..n |-> <<>>]
           /\ wg' = n
           /\ resultsMap' = <<>>
           /\ allErrs' = <<>>
           /\ ci' = 1
           /\ pc' = "fanout"
           /\ UNCHANGED nukeRet
    /\ UNCHANGED <<account, regions, engineVars, ret, deleteCalls, idErrs>>

\* wg.Add counts one task too few: the join can pass while a task still runs.
NukeCall_AddTooFew ==
    /\ pc = "batch"
    /\ bi <= Len(batches)
    /\ LET batch == batches[bi]
           n == Len(batch)
       IN  /\ events' = Append(events, NukeEvent(CurRegion, CurResource.TypeName, bi, batch))
           /\ IF n > MaxBatchSize
              THEN /\ nukeRet' = [tableData |-> << <<>> >>,
                                  err |-> <<TooManyResourcesTargetedErr(n)>>]
                   /\ pc' = "returned"
                   /\ UNCHANGED nukeVars
              ELSE /\ tasks' = [k \in 1..n |->
                                  [pc |-> "none", id |-> batch[k], obs |-> NoEvent,
                                   waitErr |-> NilErr,
                                   res |-> NewAwsResourceResult(CurResource.TypeName, batch[k])]]
                   /\ resultChans' = [k \in 1..n |-> <<>>]
                   /\ wg' = IF n > 0 THEN n - 1 ELSE 0
                   /\ resultsMap' = <<>>
                   /\ allErrs' = <<>>
                   /\ ci' = 1
                   /\ pc' = "fanout"
                   /\ UNCHANGED nukeRet
    /\ UNCHANGED <<account, regions, engineVars, ret, deleteCalls, idErrs>>

\* nukeAllResourcesInRegion calls resources.Nuke(config, batch): lines 346-348
\* and Nuke's lines 137-153.
NukeCall ==
    /\ pc = "batch"
    /\ bi <= Len(batches)
    /\ LET batch == batches[bi]
           n == Len(batch)
       IN  /\ events' = Append(events, NukeEvent(CurRegion, CurResource.TypeName, bi, batch))
           /\ IF n > MaxBatchSize
              THEN /\ nukeRet' = [tableData |-> << <<>> >>,
                                  err |-> <<TooManyResourcesTargetedErr(n)>>]
                   /\ pc' = "returned"
                   /\ UNCHANGED nukeVars
              ELSE /\ tasks' = [k \in 1..n |->
                                  [pc |-> "none", id |-> batch[k], obs |-> NoEvent,
                                   waitErr |-> NilErr,
                                   res |-> NewAwsResourceResult(CurResource.TypeName, batch[k])]]
                   /\ resultChans' = [k \in 1..n |-> <<>>]
                   /\ wg' = n
                   /\ resultsMap' = <<>>
                   /\ allErrs' = <<>>
                   /\ ci' = 1
                   /\ pc' = "fanout"
                   /\ UNCHANGED nukeRet
    /\ UNCHANGED <<account, regions, engineVars, ret, deleteCalls, idErrs>>

\* Lines 154-157: make the channel and start the goroutine of identifier ci.
NukeSpawn ==
    /\ pc = "fanout"
    /\ ci <= Len(tasks)
    /\ tasks' = [tasks EXCEPT ![ci].pc = "delete"]
    /\ ci' = ci + 1
    /\ UNCHANGED <<account, regions, pc, engineVars, resultChans, wg, resultsMap, allErrs,
                   nukeRet, ret, events, deleteCalls, idErrs>>

\* wg.Wait() left out: the collector goes on while tasks are running.
NukeJoin_NoWait ==
    /\ pc = "fanout"
    /\ ci > Len(tasks)
    /\ pc' = "collect"
    /\ ci' = 1
    /\ UNCHANGED <<account, regions, engineVars, tasks, resultChans, wg, resultsMap, allErrs,
                   nukeRet, ret, events, deleteCalls, idErrs>>

\* Line 158: wg.Wait() returns when the counter is zero.
NukeJoin ==
    /\ pc = "fanout"
    /\ ci > Len(tasks)
    /\ wg = 0
    /\ pc' = "collect"
    /\ ci' = 1
    /\ UNCHANGED <<account, regions, engineVars, tasks, resultChans, wg, resultsMap, allErrs,
                   nukeRet, ret, events, deleteCalls, idErrs>>

\* The collecting loop gives up at the first outcome that has an error.
NukeReceive_StopAtFirstError ==
    /\ pc = "collect"
    /\ ci <= Len(resultChans)
    /\ resultChans[ci] # <<>>
    /\ LET result == Head(resultChans[ci])
       IN  /\ resultChans' = [resultChans EXCEPT ![ci] = Tail(@)]
           /\ resultsMap' = (result.Identifier :> result) @@ resultsMap
           /\ allErrs' = IF result.Error # NilErr THEN Append(allErrs, result.Error) ELSE allErrs
           /\ ci' = IF result.Error # NilErr THEN Len(resultChans) + 1 ELSE ci + 1
    /\ UNCHANGED <<account, regions, pc, engineVars, tasks, wg, nukeRet, ret, events,
                   deleteCalls, idErrs>>

\* Lines 161-168: receive from resultChans[ci]; a receive blocks on an empty channel.
NukeReceive ==
    /\ pc = "collect"
    /\ ci <= Len(resultChans)
    /\ resultChans[ci] # <<>>
    /\ LET result == Head(resultChans[ci])
       IN  /\ resultChans' = [resultChans EXCEPT ![ci] = Tail(@)]
           /\ resultsMap' = (result.Identifier :> result) @@ resultsMap
           /\ allErrs' = IF result.Error # NilErr THEN Append(allErrs, result.Error) ELSE allErrs
    /\ ci' = ci + 1
    /\ UNCHANGED <<account, regions, pc, engineVars, tasks, wg, nukeRet, ret, events,
                   deleteCalls, idErrs>>

\* Lines 170-192: build the rows (in map order) and return them with
\* allErrs.ErrorOrNil(); an empty multierror is nil.
NukeReturn ==
    /\ pc = "collect"
    /\ ci > Len(resultChans)
    /\ \E order \in Orderings(DOMAIN resultsMap) :
         nukeRet' = [tableData |-> << <<>> >> \o [j \in 1..Len(order) |-> Row(order[j], resultsMap[order[j]])],
                     err |-> allErrs]
    /\ pc' = "returned"
    /\ UNCHANGED <<account, regions, engineVars, nukeVars, ret, events, deleteCalls, idErrs>>

ClearNuke ==
    /\ tasks' = <<>>
    /\ resultChans' = <<>>
    /\ wg' = 0
    /\ resultsMap' = <<>>
    /\ allErrs' = <<>>
    /\ ci' = 0
    /\ nukeRet' = NoRet

(***************************************************************************)
(* nukeAllResourcesInRegion and NukeAllResources                           *)
(***************************************************************************)

Header == <<"Resource", "Operation", "Status", "StatusMessage", "Error">>

\* No direct call is in progress.
NoCall == [fn |-> "none"]
NoResult == [fn |-> "none"]

\* After the one-minute sleep the throttled batch is attempted again.
NukeThrottled_RetrySameBatch ==
    /\ pc = "returned"
    /\ nukeRet.err # <<>>
    /\ ContainsRequestLimitExceeded(nukeRet.err)
    /\ events' = Append(events, SleepEvent(60))
    /\ pc' = "batch"
    /\ ClearNuke
    /\ UNCHANGED <<account, regions, ri, ti, batches, bi, tableData, ret, deleteCalls, idErrs>>

\* Lines 349-355: the error text contains "RequestLimitExceeded": sleep one
\* minute and "continue", which runs the loop's post statement i++.
NukeThrottled ==
    /\ pc = "returned"
    /\ nukeRet.err # <<>>
    /\ ContainsRequestLimitExceeded(nukeRet.err)
    /\ events' = Append(events, SleepEvent(60))
    /\ bi' = bi + 1
    /\ pc' = "batch"
    /\ ClearNuke
    /\ UNCHANGED <<account, regions, ri, ti, batches, tableData, ret, deleteCalls, idErrs>>

\* Line 357, then NukeAllResources' lines 412-414: any other error is returned
\* at once, by nukeAllResourcesInRegion and then by NukeAllResources.
NukeFailed ==
    /\ pc = "returned"
    /\ nukeRet.err # <<>>
    /\ ~ContainsRequestLimitExceeded(nukeRet.err)
    /\ ret' = [done |-> TRUE, err |-> nukeRet.err]
    /\ pc' = "done"
    /\ ClearNuke
    /\ UNCHANGED <<account, regions, engineVars, events, deleteCalls, idErrs>>

\* Lines 360-367: append the rows, sleep 10 seconds unless this was the last batch.
NukeSucceeded ==
    /\ pc = "returned"
    /\ nukeRet.err = <<>>
    /\ tableData' = tableData \o nukeRet.tableData
    /\ events' = IF bi # Len(batches) THEN Append(events, SleepEvent(10)) ELSE events
    /\ bi' = bi + 1
    /\ pc' = "batch"
    /\ ClearNuke
    /\ UNCHANGED <<account, regions, ri, ti, batches, ret, deleteCalls, idErrs>>

\* NukeAllResources lines 396-410 with a config that loads, then
\* nukeAllResourcesInRegion lines 334-337.
RegionStart ==
    /\ pc = "region"
    /\ ri <= Len(regions)
    /\ tableData' = << <<>>, Header >>
    /\ ti' = 1
    /\ pc' = "type"
    /\ UNCHANGED <<account, regions, ri, batches, bi, nukeVars, nukeRet, ret, events,
                   deleteCalls, idErrs>>

\* NukeAllResources lines 405-408: newConfig fails.
NewConfigFails ==
    /\ pc = "region"
    /\ ri <= Len(regions)
    /\ ret' = [done |-> TRUE, err |-> <<ApiErr("LoadConfig", "newConfig", 0)>>]
    /\ pc' = "done"
    /\ UNCHANGED <<account, regions, engineVars, nukeVars, nukeRet, events, deleteCalls, idErrs>>

\* The identifiers of the type are handed to Nuke as one batch.
TypeStart_OneBatch ==
    /\ pc = "type"
    /\ ti <= Len(ResourcesInRegion(CurRegion))
    /\ batches' = split(CurResource.Identifiers, 0)
    /\ bi' = 1
    /\ pc' = "batch"
    /\ UNCHANGED <<account, regions, ri, ti, tableData, nukeVars, nukeRet, ret, events,
                   deleteCalls, idErrs>>

\* Lines 339-344: the next resource type of the region and its batches.
TypeStart ==
    /\ pc = "type"
    /\ ti <= Len(ResourcesInRegion(CurRegion))
    /\ batches' = split(CurResource.Identifiers, MaxBatchSize)
    /\ bi' = 1
    /\ pc' = "batch"
    /\ UNCHANGED <<account, regions, ri, ti, tableData, nukeVars, nukeRet, ret, events,
                   deleteCalls, idErrs>>

\* Line 346: the batch loop of a type ends.
TypeDone ==
    /\ pc = "batch"
    /\ bi > Len(batches)
    /\ ti' = ti + 1
    /\ batches' = <<>>
    /\ bi' = 0
    /\ pc' = "type"
    /\ UNCHANGED <<account, regions, ri, tableData, nukeVars, nukeRet, ret, events,
                   deleteCalls, idErrs>>

\* Lines 371-386: render the table if the region has resource entries, return
\* nil; NukeAllResources goes on to the next region.
RegionDone ==
    /\ pc = "type"
    /\ ti > Len(ResourcesInRegion(CurRegion))
    /\ events' = IF Len(ResourcesInRegion(CurRegion)) > 0
                 THEN Append(events, RenderEvent(CurRegion, tableData))
                 ELSE events
    /\ ri' = ri + 1
    /\ ti' = 0
    /\ tableData' = <<>>
    /\ pc' = "region"
    /\ UNCHANGED <<account, regions, batches, bi, nukeVars, nukeRet, ret, deleteCalls, idErrs>>

\* NukeAllResources line 418: return nil after the last region.
RunDone ==
    /\ pc = "region"
    /\ ri > Len(regions)
    /\ ret' = [done |-> TRUE, err |-> <<>>]
    /\ pc' = "done"
    /\ UNCHANGED <<account, regions, engineVars, nukeVars, nukeRet, events, deleteCalls, idErrs>>

Init ==
    /\ account = Inventory
    /\ regions \in RegionLists
    /\ pc = "region"
    /\ ri = 1
    /\ ti = 0
    /\ batches = <<>>
    /\ bi = 0
    /\ tableData = <<>>
    /\ tasks = <<>>
    /\ resultChans = <<>>
    /\ wg = 0
    /\ resultsMap = <<>>
    /\ allErrs = <<>>
    /\ ci = 0
    /\ nukeRet = NoRet
    /\ ret = [done |-> FALSE, err |-> <<>>]
    /\ events = <<>>
    /\ deleteCalls = EmptyBag
    /\ idErrs = {}
    /\ callArgs = NoCall
    /\ callRet = NoResult

Next ==
    \/ RegionStart /\ UNCHANGED callVars
    \/ NewConfigFails /\ UNCHANGED callVars
    \/ TypeStart /\ UNCHANGED callVars
    \/ TypeDone /\ UNCHANGED callVars
    \/ RegionDone /\ UNCHANGED callVars
    \/ RunDone /\ UNCHANGED callVars
    \/ NukeCall /\ UNCHANGED callVars
    \/ NukeSpawn /\ UNCHANGED callVars
    \/ NukeJoin /\ UNCHANGED callVars
    \/ NukeReceive /\ UNCHANGED callVars
    \/ NukeReturn /\ UNCHANGED callVars
    \/ NukeThrottled /\ UNCHANGED callVars
    \/ NukeFailed /\ UNCHANGED callVars
    \/ NukeSucceeded /\ UNCHANGED callVars
    \/ \E k \in 1..(MaxBatchSize + 1) : nukeAsyncDelete(k) /\ UNCHANGED callVars
    \/ \E k \in 1..(MaxBatchSize + 1) : nukeAsyncWait(k) /\ UNCHANGED callVars
    \/ \E k \in 1..(MaxBatchSize + 1) : nukeAsyncStatus(k) /\ UNCHANGED callVars
    \/ \E k \in 1..(MaxBatchSize + 1) : nukeAsyncDone(k) /\ UNCHANGED callVars

Spec == Init /\ [][Next]_vars

(***************************************************************************)
(* One call of the exported AwsResource.Nuke with any identifier list, of  *)
(* up to one identifier more than MaxBatchSize                             *)
(***************************************************************************)

NukeInit ==
    /\ account = Inventory
    /\ regions = <<defaultRegion>>
    /\ pc = "batch"
    /\ ri = 1
    /\ ti = 1
    /\ batches \in { <<Ids(n)>> : n \in 0..(MaxBatchSize + 1) }
    /\ bi = 1
    /\ tableData = << <<>>, Header >>
    /\ tasks = <<>>
    /\ resultChans = <<>>
    /\ wg = 0
    /\ resultsMap = <<>>
    /\ allErrs = <<>>
    /\ ci = 0
    /\ nukeRet = NoRet
    /\ ret = [done |-> FALSE, err |-> <<>>]
    /\ events = <<>>
    /\ deleteCalls = EmptyBag
    /\ idErrs = {}
    /\ callArgs = NoCall
    /\ callRet = NoResult

NukeNext ==
    \/ NukeCall /\ UNCHANGED callVars
    \/ NukeSpawn /\ UNCHANGED callVars
    \/ NukeJoin /\ UNCHANGED callVars
    \/ NukeReceive /\ UNCHANGED callVars
    \/ NukeReturn /\ UNCHANGED callVars
    \/ \E k \in 1..(MaxBatchSize + 1) : nukeAsyncDelete(k) /\ UNCHANGED callVars
    \/ \E k \in 1..(MaxBatchSize + 1) : nukeAsyncWait(k) /\ UNCHANGED callVars
    \/ \E k \in 1..(MaxBatchSize + 1) : nukeAsyncStatus(k) /\ UNCHANGED callVars
    \/ \E k \in 1..(MaxBatchSize + 1) : nukeAsyncDone(k) /\ UNCHANGED callVars

NukeSpec == NukeInit /\ [][NukeNext]_vars

\* Every remote call returns and the scheduler runs every goroutine that
\* can take a step: a step that stays possible is eventually taken.
NukeFairSpec == NukeSpec /\ WF_vars(NukeNext)

(***************************************************************************)
(* Direct calls of the pure functions: no engine run is in progress        *)
(***************************************************************************)

EngineIdle ==
    /\ account = Inventory
    /\ regions = <<>>
    /\ pc = "idle"
    /\ ri = 0
    /\ ti = 0
    /\ batches = <<>>
    /\ bi = 0
    /\ tableData = <<>>
    /\ tasks = <<>>
    /\ resultChans = <<>>
    /\ wg = 0
    /\ resultsMap = <<>>
    /\ allErrs = <<>>
    /\ ci = 0
    /\ nukeRet = NoRet
    /\ ret = [done |-> FALSE, err |-> <<>>]
    /\ events = <<>>
    /\ deleteCalls = EmptyBag
    /\ idErrs = {}

engineState == <<account, regions, pc, engineVars, nukeVars, nukeRet, ret, events,
                 deleteCalls, idErrs>>

\* The identifier lists split is called with.
IdentifierLists == UNION { [1..n -> 1..MaxIdentifier] : n \in 0..MaxIdentifiers }

SplitInit ==
    /\ EngineIdle
    /\ callArgs \in [fn : {"split"}, identifiers : IdentifierLists, limit : (-MaxLimit)..MaxLimit]
    /\ callRet = NoResult

\* batches := split(identifiers, limit)
SplitCall ==
    /\ callArgs.fn = "split"
    /\ callRet = NoResult
    /\ callRet' = [fn |-> "split", chunks |-> split(callArgs.identifiers, callArgs.limit)]
    /\ UNCHANGED <<engineState, callArgs>>

SplitNext == SplitCall

SplitSpec == SplitInit /\ [][SplitNext]_vars

RegionNameLists == UNION { [1..n -> RegionNames] : n \in 0..MaxRegions }

TargetInit ==
    /\ EngineIdle
    /\ callArgs \in [fn : {"GetTargetRegions"}, enabledRegions : RegionNameLists,
                     selectedRegions : RegionNameLists, excludedRegions : RegionNameLists]
    /\ callRet = NoResult

\* targetRegions, err := GetTargetRegions(enabled, selected, excluded)
TargetCall ==
    /\ callArgs.fn = "GetTargetRegions"
    /\ callRet = NoResult
    /\ callRet' = [fn |-> "GetTargetRegions"] @@
                  GetTargetRegions(callArgs.enabledRegions, callArgs.selectedRegions,
                                   callArgs.excludedRegions)
    /\ UNCHANGED <<engineState, callArgs>>

TargetNext == TargetCall

TargetSpec == TargetInit /\ [][TargetNext]_vars

\* NewQuery(regions, excludeRegions, resourceTypes, excludeResourceTypes, _)
\* has built the Query q (held in callArgs) and is about to call q.Validate().
QueryInit ==
    /\ EngineIdle
    /\ callArgs \in [fn : {"Validate"}, Regions : RegionNameLists,
                     ExcludeRegions : RegionNameLists, ResourceTypes : ResourceTypeLists,
                     ExcludeResourceTypes : ResourceTypeLists]
    /\ callRet = NoResult

\* Query.Validate, part_000 344-368.  callRet also keeps the list
\* GetEnabledRegions returned.
QueryValidate ==
    /\ callArgs.fn = "Validate"
    /\ callRet = NoResult
    /\ \E probes \in Probes, answer \in DescribeRegionsAnswers :
         LET q == callArgs
             selection == HandleResourceTypeSelections(q.ResourceTypes, q.ExcludeResourceTypes)
             enabled == GetEnabledRegions(probes, answer)
             withGlobal == Append(enabled.regions, GlobalRegion)
             target == GetTargetRegions(withGlobal, q.Regions, q.ExcludeRegions)
             typed == [q EXCEPT !.ResourceTypes = selection.types]
         IN  IF selection.err # NilErr
             THEN /\ callRet' = [fn |-> "Validate", err |-> selection.err, enabled |-> <<>>]
                  /\ UNCHANGED callArgs
             ELSE IF enabled.err # NilErr
             THEN /\ callRet' = [fn |-> "Validate",
                                 err |-> CouldNotDetermineEnabledRegionsError(enabled.err),
                                 enabled |-> <<>>]
                  /\ callArgs' = typed
             ELSE IF target.err # NilErr
             THEN /\ callRet' = [fn |-> "Validate",
                                 err |-> CouldNotSelectRegionError(target.err),
                                 enabled |-> enabled.regions]
                  /\ callArgs' = typed
             ELSE /\ callRet' = [fn |-> "Validate", err |-> NilErr, enabled |-> enabled.regions]
                  /\ callArgs' = [typed EXCEPT !.Regions = target.regions]
    /\ UNCHANGED engineState

QueryNext == QueryValidate

QuerySpec == QueryInit /\ [][QueryNext]_vars

(***************************************************************************)
(* GetAllResources (discovery)                                             *)
(***************************************************************************)

\* What the account holds remotely: per region and resource type the
\* resources ListResources describes, each with the time it was created.
RemoteResources ==
    ("us-east-1" :>
        ( ("AWS::Logs::LogGroup" :> << [Identifier |-> 1, created |-> 1],
                                       [Identifier |-> 2, created |-> 3] >>)
          @@ ("AWS::IAM::Role" :> <<>>) ))
    @@
    ("eu-west-1" :>
        ( ("AWS::Logs::LogGroup" :> <<>>) @@ ("AWS::IAM::Role" :> <<>>) ))

\* The resourceTypes and excludeAfter arguments of GetAllResources.
ResourceTypeArgs ==
    { <<>>, <<"AWS::Logs::LogGroup">>, <<"AWS::IAM::Role">>,
      <<"AWS::Logs::LogGroup", "AWS::IAM::Role">> }
ExcludeAfterArgs == {0, 2, 4}

\* The call is in progress: account is the AwsAccountResources being built,
\* ri the position in targetRegions, printed what was written to stdout.
DiscoveryRunning == callArgs.fn = "GetAllResources" /\ callRet.status = "running"

DiscoveryInit ==
    /\ account = <<>>
    /\ regions = <<>>
    /\ pc = "idle"
    /\ ri = 1
    /\ ti = 0
    /\ batches = <<>>
    /\ bi = 0
    /\ tableData = <<>>
    /\ tasks = <<>>
    /\ resultChans = <<>>
    /\ wg = 0
    /\ resultsMap = <<>>
    /\ allErrs = <<>>
    /\ ci = 0
    /\ nukeRet = NoRet
    /\ ret = [done |-> FALSE, err |-> <<>>]
    /\ events = <<>>
    /\ deleteCalls = EmptyBag
    /\ idErrs = {}
    /\ callArgs \in [fn : {"GetAllResources"}, targetRegions : RegionNameLists,
                     excludeAfter : ExcludeAfterArgs, resourceTypes : ResourceTypeArgs]
    /\ callRet = [fn |-> "GetAllResources", status |-> "running", err |-> NilErr,
                  printed |-> <<>>]

discoveryFrame == <<regions, pc, ti, batches, bi, tableData, nukeVars, nukeRet, ret, events,
                    deleteCalls, idErrs, callArgs>>

\* Lines 223-226: the "global" region is skipped.
GetAllResourcesSkipGlobal ==
    /\ DiscoveryRunning
    /\ ri <= Len(callArgs.targetRegions)
    /\ callArgs.targetRegions[ri] = GlobalRegion
    /\ ri' = ri + 1
    /\ UNCHANGED <<account, callRet, discoveryFrame>>

\* Lines 230-233: newConfig fails, GetAllResources returns (nil, err).
GetAllResourcesConfigFails ==
    /\ DiscoveryRunning
    /\ ri <= Len(callArgs.targetRegions)
    /\ callArgs.targetRegions[ri] # GlobalRegion
    /\ account' = <<>>
    /\ callRet' = [callRet EXCEPT !.status = "returned",
                                  !.err = ApiErr("LoadConfig", "newConfig", 0)]
    /\ UNCHANGED <<ri, discoveryFrame>>

\* Lines 235-272: one region.  ListResources answers each resource type
\* with the remote resources or with an error; on an error the SDK returns a
\* nil output, the error is printed, and reading output.ResourceDescriptions
\* (line 257) panics on the nil pointer.
GetAllResourcesRegion ==
    /\ DiscoveryRunning
    /\ ri <= Len(callArgs.targetRegions)
    /\ callArgs.targetRegions[ri] # GlobalRegion
    /\ \E listing \in [DOMAIN callArgs.resourceTypes -> {"ok", "err"}] :
         LET region == callArgs.targetRegions[ri]
             types == callArgs.resourceTypes
             failing == { i \in DOMAIN types : listing[i] = "err" }
             first == CHOOSE i \in failing : \A j \in failing : i <= j
             resourcesInRegion ==
                 [i \in DOMAIN types |->
                     [TypeName |-> types[i],
                      Identifiers |-> [j \in DOMAIN RemoteResources[region][types[i]] |->
                                          RemoteResources[region][types[i]][j].Identifier]]]
         IN  IF failing # {}
             THEN /\ callRet' = [callRet EXCEPT
                                    !.status = "panicked",
                                    !.printed = Append(@, <<region, types[first]>>)]
                  /\ UNCHANGED <<account, ri>>
             ELSE /\ account' = IF Len(resourcesInRegion) > 0
                                THEN (region :> resourcesInRegion) @@ account
                                ELSE account
                  /\ ri' = ri + 1
                  /\ UNCHANGED callRet
    /\ UNCHANGED discoveryFrame

\* Line 277: return &account, nil.
GetAllResourcesReturn ==
    /\ DiscoveryRunning
    /\ ri > Len(callArgs.targetRegions)
    /\ callRet' = [callRet EXCEPT !.status = "returned"]
    /\ UNCHANGED <<account, ri, discoveryFrame>>

DiscoveryNext ==
    \/ GetAllResourcesSkipGlobal
    \/ GetAllResourcesConfigFails
    \/ GetAllResourcesRegion
    \/ GetAllResourcesReturn

DiscoverySpec == DiscoveryInit /\ [][DiscoveryNext]_vars

(***************************************************************************)
(* Direct calls of GetEnabledRegions                                       *)
(***************************************************************************)

\* Probe answers for a direct call: DescribeRegions fails for the candidates
\* before position k, candidate k answers how, the candidates after it rest.
ProbeArgs ==
    { [i \in DOMAIN regionsToTry |-> IF i < k THEN "err" ELSE IF i = k THEN how ELSE rest] :
          k \in 1..(Len(regionsToTry) + 1), how \in {"ok", "loadConfigErr"},
          rest \in {"ok", "err", "loadConfigErr"} }

EnabledInit ==
    /\ EngineIdle
    /\ callArgs \in [fn : {"GetEnabledRegions"}, probes : ProbeArgs,
                     answer : DescribeRegionsAnswers]
    /\ callRet = NoResult

\* regions, err := GetEnabledRegions()
EnabledCall ==
    /\ callArgs.fn = "GetEnabledRegions"
    /\ callRet = NoResult
    /\ callRet' = [fn |-> "GetEnabledRegions"] @@
                  GetEnabledRegions(callArgs.probes, callArgs.answer)
    /\ UNCHANGED <<engineState, callArgs>>

EnabledNext == EnabledCall

EnabledSpec == EnabledInit /\ [][EnabledNext]_vars

(***************************************************************************)
(* Direct calls of the AwsRegionResource lookups                           *)
(***************************************************************************)

AwsResources == [TypeName : TypeNames, Identifiers : { Ids(n) : n \in 0..MaxResources }]

AwsRegionResources == UNION { [1..n -> AwsResources] : n \in 0..MaxResources }

LookupInit ==
    /\ EngineIdle
    /\ callArgs \in [fn : {"CountOfResourceType"}, arr : AwsRegionResources,
                     resourceType : TypeNames]
    /\ callRet = NoResult

\* arr.CountOfResourceType(t), arr.ResourceTypePresent(t),
\* arr.IdentifiersForResourceType(t)
LookupCall ==
    /\ callArgs.fn = "CountOfResourceType"
    /\ callRet = NoResult
    /\ callRet' = [fn |-> "CountOfResourceType",
                   count |-> CountOfResourceType(callArgs.arr, callArgs.resourceType),
                   present |-> ResourceTypePresent(callArgs.arr, callArgs.resourceType),
                   identifiers |-> IdentifiersForResourceType(callArgs.arr, callArgs.resourceType)]
    /\ UNCHANGED <<engineState, callArgs>>

LookupNext == LookupCall

LookupSpec == LookupInit /\ [][LookupNext]_vars

(***************************************************************************)
(* Properties of the deletion engine                                       *)
(***************************************************************************)

Range(f) == { f[x] : x \in DOMAIN f }

IsNuke(e) == e.kind = "Nuke"

SameBatch(e, f) == e.region = f.region /\ e.type = f.type /\ e.i = f.i /\ e.batch = f.batch

\* The Nuke invocation at position j of the history ended in the throttle branch.
Throttled(j) == j + 1 <= Len(events) /\ events[j + 1] = SleepEvent(60)

\* Position k holds the first Nuke invocation after position j.
NextNuke(j, k) ==
    /\ j < k
    /\ IsNuke(events[k])
    /\ \A m \in (j + 1)..(k - 1) : ~IsNuke(events[m])

\* The region's processing has ended: it returned nil and the run moved on, or
\* it returned the error the run ended with.
RegionFinished(r) ==
    \E j \in DOMAIN regions :
        /\ regions[j] = r
        /\ \/ j < ri
           \/ j = ri /\ pc = "done"

\* The run ended with the error of a Nuke call.
EndedOnNukeError == pc = "done" /\ ret.err # <<>> /\ ret.err[1].call # "newConfig"

\* C1: after Nuke on batch i returns a combined error with the rate-limit
\* signal, the next Nuke invocation is on the same batch i, and batch i+1 of
\* the type is not started before batch i was attempted without a throttle.
C1_ThrottledBatchRetried ==
    \A j \in DOMAIN events :
        (IsNuke(events[j]) /\ Throttled(j)) =>
            \A k \in DOMAIN events :
                NextNuke(j, k) => SameBatch(events[j], events[k])

\* C2: when a batch's combined error is not a throttle error the engine goes
\* on: when the region's processing has ended with such an error, a delete
\* has been issued for every identifier of the region's inventory.
C2_LaterBatchesProcessedAfterError ==
    EndedOnNukeError =>
        \A t \in DOMAIN ResourcesInRegion(CurRegion) :
            LET r == ResourcesInRegion(CurRegion)[t]
            IN  \A x \in DOMAIN r.Identifiers :
                    BagIn(<<CurRegion, r.TypeName, r.Identifiers[x]>>, deleteCalls)

\* C3: an error from processing one region does not keep the remaining
\* regions from being processed: when the run ends with such an error, every
\* region of the list has been taken up.
C3_RemainingRegionsProcessed ==
    EndedOnNukeError => ri >= Len(regions)

\* C4: no per-identifier error is dropped: once the processing of a region has
\* ended, every non-nil Error of an outcome of that region is part of the
\* non-nil error the processing returned.
C4_NoIdentifierErrorDropped ==
    \A e \in idErrs :
        RegionFinished(e.region) =>
            /\ pc = "done"
            /\ regions[ri] = e.region
            /\ e.err \in Range(ret.err)

\* C5: every identifier a delete was attempted for appears in the rendered
\* report of its region, whether its batch succeeded, failed or was throttled.
C5_AttemptedIdentifierReported ==
    \A d \in BagToSet(deleteCalls) :
        RegionFinished(d[1]) =>
            \E j \in DOMAIN events :
                /\ events[j].kind = "Render"
                /\ events[j].region = d[1]
                /\ \E x \in DOMAIN events[j].table :
                       /\ events[j].table[x] # <<>>
                       /\ events[j].table[x][1] = colorTypeAndIdentifier(d[2], d[3])

(***************************************************************************)
(* Properties of one Nuke call and of nukeAsync                            *)
(***************************************************************************)

AllTasksDone == \A k \in DOMAIN tasks : tasks[k].pc = "done"

\* The goroutine of task k has written its outcome.
Finalized(k) == tasks[k].pc \in {"signal", "done"}

\* The task polled its delete request and the final status fetch answered.
StatusFetched(k) == Finalized(k) /\ tasks[k].res.Operation = "DELETE"

FailedTasks == { k \in DOMAIN tasks : tasks[k].res.Error # NilErr }

\* Nuke has returned from a batch it started tasks for.
NukeReturned == pc = "returned" /\ tasks # <<>>

\* C6: a failing task does not stop or skip its siblings: when Nuke returns,
\* every identifier of the batch has a finalized outcome, collected and shown
\* in a row, and the combined error has exactly one entry per identifier
\* whose outcome has a non-nil Error.
C6_PartialFailureIsolation ==
    NukeReturned =>
        /\ \A k \in DOMAIN tasks :
              /\ tasks[k].pc = "done"
              /\ tasks[k].id \in DOMAIN resultsMap
              /\ resultsMap[tasks[k].id] = tasks[k].res
              /\ \E x \in DOMAIN nukeRet.tableData :
                     nukeRet.tableData[x] = Row(tasks[k].id, tasks[k].res)
        /\ Len(nukeRet.err) = Cardinality(FailedTasks)
        /\ \A k \in FailedTasks :
              Cardinality({ i \in DOMAIN nukeRet.err : nukeRet.err[i] = tasks[k].res.Error }) = 1

\* One identifier of a batch of several failed on submission, a sibling was
\* deleted, and the combined error names exactly the one failure.
C6_Witness ==
    /\ NukeReturned
    /\ Len(tasks) >= 2
    /\ Cardinality({ k \in DOMAIN tasks : tasks[k].res.Error.call = "DeleteResource" }) = 1
    /\ \E k \in DOMAIN tasks : tasks[k].res.OperationStatus = "SUCCESS"
    /\ Len(nukeRet.err) = 1

\* C7: polling ended in provider status FAILED with error code NotFound on a
\* delete: the outcome reports OperationStatus SUCCESS and carries no error.
C7_NotFoundOnDeleteReportedSuccess ==
    \A k \in DOMAIN tasks :
        ( /\ StatusFetched(k)
          /\ tasks[k].obs.OperationStatus = "FAILED"
          /\ tasks[k].obs.ErrorCode = "NotFound" )
        => /\ tasks[k].res.OperationStatus = "SUCCESS"
           /\ tasks[k].res.Error = NilErr

\* C8: polling ended in provider status FAILED with another error code: the
\* outcome carries the error with the provider's status message and error
\* code, and the batch's combined error contains it.
C8_HardFailureCarriesError ==
    \A k \in DOMAIN tasks :
        ( /\ Finalized(k)
          /\ tasks[k].obs.OperationStatus = "FAILED"
          /\ tasks[k].obs.ErrorCode # "NotFound" )
        => /\ tasks[k].res.Error = WaiterStateErr(tasks[k].obs)
           /\ NukeReturned => tasks[k].res.Error \in Range(nukeRet.err)

\* C9: polling reached the 10-minute timeout: the outcome has status
\* "Not Available" and the timeout as its Error, and the delete was issued once.
C9_TimeoutReportedNotAvailable ==
    \A k \in DOMAIN tasks :
        ( Finalized(k) /\ tasks[k].waitErr = WaiterTimeoutErr )
        => /\ tasks[k].res.OperationStatus = "Not Available"
           /\ tasks[k].res.Error = WaiterTimeoutErr
           /\ CopiesIn(<<CurRegion, tasks[k].res.TypeName, tasks[k].id>>, deleteCalls) = 1

\* A step that receives from a result channel.
IsReceive ==
    \E k \in DOMAIN resultChans :
        k \in DOMAIN resultChans' /\ Len(resultChans'[k]) < Len(resultChans[k])

\* C10: the collector receives from a result channel only after every task of
\* the batch has signalled completion, and an outcome that is on its channel
\* is the task's final outcome and does not change while it is there.
C10_JoinBeforeRead ==
    [][ /\ IsReceive => AllTasksDone
        /\ \A k \in DOMAIN resultChans :
              resultChans[k] # <<>> =>
                  /\ Head(resultChans[k]) = tasks[k].res
                  /\ (k \in DOMAIN resultChans' /\ resultChans'[k] # <<>>)
                         => resultChans'[k] = resultChans[k] ]_vars

\* The collector has received the first outcome of a batch of several; the
\* next outcome waits on its channel.
C10_Witness ==
    /\ pc = "collect"
    /\ ci = 2
    /\ Len(tasks) >= 2
    /\ resultChans[2] # <<>>

(***************************************************************************)
(* Batches                                                                 *)
(***************************************************************************)

\* The delete-and-poll tasks whose goroutine has started and not yet returned.
Running == { k \in DOMAIN tasks : tasks[k].pc \in {"delete", "wait", "status", "signal"} }

\* C11: batches never overlap: every running task belongs to the one batch
\* of the one resource type whose Nuke call is in progress, at most
\* MaxBatchSize tasks run at a time, and outside that Nuke call (so when the
\* next batch is started) no task is running.
C11_BatchesDoNotOverlap ==
    /\ Cardinality(Running) <= MaxBatchSize
    /\ \A k \in Running :
          /\ pc = "fanout"
          /\ bi \in DOMAIN batches
          /\ k \in DOMAIN batches[bi]
          /\ tasks[k].id = batches[bi][k]
          /\ tasks[k].res.TypeName = CurResource.TypeName
    /\ pc = "batch" => tasks = <<>>

\* A task of the second batch of a type runs after the first batch was nuked.
C11_Witness ==
    /\ pc = "fanout"
    /\ bi = 2
    /\ Running # {}
    /\ \E j \in DOMAIN events :
          /\ IsNuke(events[j])
          /\ events[j].i = 1
          /\ events[j].region = CurRegion
          /\ events[j].type = CurResource.TypeName
          /\ Len(events[j].batch) = MaxBatchSize

\* Task k sends on its channel in this step.
Sends(k) == Len(resultChans'[k]) > Len(resultChans[k])

\* Task k signals completion (wg.Done) in this step.
Signals(k) == tasks[k].pc # "done" /\ tasks'[k].pc = "done"

\* C12: every nukeAsync task writes exactly one outcome to its own channel
\* and signals completion exactly once, on every path: until the join, a
\* channel holds one outcome (the task's own) when its task has finalized
\* and none before, the WaitGroup counter is the number of tasks that have
\* not signalled, a task sends only in the step that finalizes it, and a task
\* that has finalized or signalled never does so again.
C12_OneOutcomeOneSignal ==
    /\ [](pc = "fanout" =>
            /\ \A k \in DOMAIN tasks :
                  /\ Len(resultChans[k]) = IF Finalized(k) THEN 1 ELSE 0
                  /\ Finalized(k) =>
                        /\ Head(resultChans[k]) = tasks[k].res
                        /\ tasks[k].res.Identifier = tasks[k].id
            /\ wg = Cardinality({ k \in DOMAIN tasks : tasks[k].pc # "done" }))
    /\ [][ \A k \in DOMAIN tasks \cap DOMAIN tasks' :
              /\ Sends(k) <=> (~Finalized(k) /\ tasks'[k].pc = "signal")
              /\ Sends(k) => resultChans'[k] = <<tasks'[k].res>>
              /\ Finalized(k) => tasks'[k].pc \in {"signal", "done"}
              /\ tasks[k].pc = "done" => tasks'[k].pc = "done"
              /\ Signals(k) => tasks[k].pc = "signal" /\ wg' = wg - 1 ]_vars

\* Every task of a batch of several has finished, one down the
\* submission-failure path and one down the polling path, and each channel
\* holds its one outcome.
C12_Witness ==
    /\ pc = "fanout"
    /\ Len(tasks) >= 2
    /\ AllTasksDone
    /\ wg = 0
    /\ \E k \in DOMAIN tasks : tasks[k].res.Error.call = "DeleteResource"
    /\ \E k \in DOMAIN tasks : StatusFetched(k)
    /\ \A k \in DOMAIN tasks : Len(resultChans[k]) = 1

\* C13: Nuke called with more than MaxBatchSize identifiers fails at once
\* with TooManyResourcesTargetedErr: no goroutine is started, DeleteResource
\* is never called, and the call returns that error alone.
C13_TooManyRejected ==
    Len(batches[1]) > MaxBatchSize =>
        /\ tasks = <<>>
        /\ deleteCalls = EmptyBag
        /\ pc \in {"batch", "returned"}
        /\ pc = "returned" =>
              /\ nukeRet.err = <<TooManyResourcesTargetedErr(Len(batches[1]))>>
              /\ Len(events) = 1

\* Nuke was called with MaxBatchSize + 1 identifiers and has returned the error.
C13_Witness ==
    /\ pc = "returned"
    /\ Len(batches[1]) = MaxBatchSize + 1
    /\ IsNuke(events[1])
    /\ events[1].batch = batches[1]
    /\ nukeRet.err[1].code = "TooManyResourcesTargeted"

\* Two Nuke invocations on batches of the same resource type of the same region.
SameType(e, f) == e.region = f.region /\ e.type = f.type

\* C14: between every two successive batches of a resource type the engine
\* sleeps the 10-second inter-batch delay before the next batch is started,
\* and it never sleeps it after the last batch of a type: a 10-second sleep
\* is followed only by a Nuke call on the next batch of the same type.
C14_TenSecondDelayBetweenBatches ==
    /\ \A j, k \in DOMAIN events :
          (IsNuke(events[j]) /\ NextNuke(j, k) /\ SameType(events[j], events[k]))
              => \E m \in (j + 1)..(k - 1) : events[m] = SleepEvent(10)
    /\ \A m \in DOMAIN events :
          events[m] = SleepEvent(10) =>
              /\ m > 1
              /\ IsNuke(events[m - 1])
              /\ IF m < Len(events)
                 THEN /\ IsNuke(events[m + 1])
                      /\ SameType(events[m - 1], events[m + 1])
                      /\ events[m + 1].i = events[m - 1].i + 1
                 ELSE pc = "batch" /\ bi <= Len(batches)

(***************************************************************************)
(* split                                                                   *)
(***************************************************************************)

RECURSIVE Flatten(_)
Flatten(chunks) == IF chunks = <<>> THEN <<>> ELSE Head(chunks) \o Flatten(Tail(chunks))

SplitReturned == callRet.fn = "split"

\* C15: for every identifier sequence and every limit, the batches split
\* returns, concatenated in order, are the original sequence.
C15_SplitConcatenation ==
    SplitReturned => Flatten(callRet.chunks) = callArgs.identifiers

\* split returned several batches of distinct identifiers, the last one a
\* remainder shorter than the limit.
C15_Witness ==
    /\ SplitReturned
    /\ callArgs.limit > 1
    /\ Len(callRet.chunks) >= 2
    /\ Len(callRet.chunks[Len(callRet.chunks)]) < callArgs.limit
    /\ \E i, j \in DOMAIN callArgs.identifiers : callArgs.identifiers[i] # callArgs.identifiers[j]

\* C16: for N identifiers and a positive limit L split returns ceil(N/L)
\* batches, each of L identifiers except the last, which has N mod L when
\* that is not zero; for limit 0 it returns one batch with all identifiers.
C16_SplitBatchCount ==
    SplitReturned =>
        LET N == Len(callArgs.identifiers)
            L == callArgs.limit
            chunks == callRet.chunks
        IN  /\ L > 0 =>
                  /\ Len(chunks) = (N + L - 1) \div L
                  /\ \A i \in DOMAIN chunks :
                        Len(chunks[i]) = IF i = Len(chunks) /\ N % L # 0 THEN N % L ELSE L
            /\ L = 0 => chunks = <<callArgs.identifiers>>

\* A positive limit that does not divide the number of identifiers: split
\* returned the full batches and one more for the remainder.
C16_Witness ==
    /\ SplitReturned
    /\ callArgs.limit > 0
    /\ Len(callArgs.identifiers) % callArgs.limit # 0
    /\ Len(callArgs.identifiers) > callArgs.limit
    /\ Len(callRet.chunks) = (Len(callArgs.identifiers) \div callArgs.limit) + 1

(***************************************************************************)
(* GetTargetRegions                                                        *)
(***************************************************************************)

TargetReturned == callRet.fn = "GetTargetRegions"

\* The call failed: an error and no region list.
TargetFailed == callRet.err # NilErr /\ callRet.regions = <<>>

\* The entries of list that are not in the enabled list, in order.
NotEnabled(list) ==
    SelectSeq(list, LAMBDA r : ~ListContainsElement(callArgs.enabledRegions, r))

\* C17: GetTargetRegions fails whenever the included and the excluded list
\* are both non-empty, whatever they contain, and returns no region list.
C17_BothListsRejected ==
    ( /\ TargetReturned
      /\ Len(callArgs.selectedRegions) > 0
      /\ Len(callArgs.excludedRegions) > 0 )
    => TargetFailed

\* Both lists were given, each naming only enabled regions and leaving some
\* enabled region over, and the call failed for that reason.
C17_Witness ==
    /\ TargetReturned
    /\ callArgs.selectedRegions # <<>>
    /\ callArgs.excludedRegions # <<>>
    /\ NotEnabled(callArgs.selectedRegions \o callArgs.excludedRegions) = <<>>
    /\ \E i \in DOMAIN callArgs.enabledRegions :
          ~ListContainsElement(callArgs.excludedRegions, callArgs.enabledRegions[i])
    /\ callRet.err.code = "BothSelectedAndExcluded"

\* What C18 says of a call with a non-empty included and an empty excluded
\* list: the included list comes back when all of it is enabled, otherwise
\* the call fails with an error that lists the included regions not enabled.
IncludedRule ==
    IF NotEnabled(callArgs.selectedRegions) = <<>>
    THEN callRet.err = NilErr /\ callRet.regions = callArgs.selectedRegions
    ELSE /\ TargetFailed
         /\ callRet.err.code = "InvalidRegion"
         /\ callRet.err.detail = NotEnabled(callArgs.selectedRegions)

IncludedOnly ==
    /\ TargetReturned
    /\ Len(callArgs.selectedRegions) > 0
    /\ Len(callArgs.excludedRegions) = 0

\* C18 as stated: with a non-empty included list and an empty excluded list
\* GetTargetRegions returns exactly the included list if every included
\* region is enabled, and otherwise fails with an error listing exactly the
\* included regions that are not enabled.
C18_IncludedListAsStated ==
    IncludedOnly => IncludedRule

\* C18, amended: the statement holds when the enabled list is not empty; with
\* an empty enabled list the call fails with the error "Cannot have empty
\* enabled regions", which lists no region.
C18_IncludedList ==
    IncludedOnly =>
        IF Len(callArgs.enabledRegions) > 0
        THEN IncludedRule
        ELSE /\ TargetFailed
             /\ callRet.err.code = "EmptyEnabledRegions"
             /\ callRet.err.detail = <<>>

\* Two regions were included, one enabled and one not: the error lists the
\* one that is not.
C18_Witness ==
    /\ IncludedOnly
    /\ Len(callArgs.selectedRegions) = 2
    /\ Len(NotEnabled(callArgs.selectedRegions)) = 1
    /\ callRet.err.code = "InvalidRegion"
    /\ Len(callRet.err.detail) = 1

\* C19: with a non-empty excluded list and an empty included list
\* GetTargetRegions fails if an excluded region is not enabled; otherwise it
\* fails with "cannot exclude all regions" if every enabled region is
\* excluded; otherwise it returns exactly the enabled regions that are not
\* excluded, in the order of the enabled list.
C19_ExcludedList ==
    ( /\ TargetReturned
      /\ Len(callArgs.excludedRegions) > 0
      /\ Len(callArgs.selectedRegions) = 0 )
    => LET remaining == SelectSeq(callArgs.enabledRegions,
                            LAMBDA r : ~ListContainsElement(callArgs.excludedRegions, r))
       IN  IF NotEnabled(callArgs.excludedRegions) # <<>>
           THEN TargetFailed
           ELSE IF remaining = <<>>
           THEN TargetFailed /\ callRet.err.code = "CannotExcludeAllRegions"
           ELSE callRet.err = NilErr /\ callRet.regions = remaining

\* Every enabled region was excluded, and the call failed saying so.
C19_Witness ==
    /\ TargetReturned
    /\ callArgs.selectedRegions = <<>>
    /\ callArgs.excludedRegions # <<>>
    /\ callArgs.enabledRegions # <<>>
    /\ NotEnabled(callArgs.excludedRegions) = <<>>
    /\ callRet.err.code = "CannotExcludeAllRegions"

(***************************************************************************)
(* Query.Validate                                                          *)
(***************************************************************************)

ValidateSucceeded == callRet.fn = "Validate" /\ callRet.err = NilErr

\* C20: after every successful Query.Validate (so after every NewQuery that
\* returns no error) Query.Regions is not empty and each of its elements is
\* a region GetEnabledRegions returned or "global".
C20_ValidatedRegions ==
    ValidateSucceeded =>
        /\ callArgs.Regions # <<>>
        /\ \A i \in DOMAIN callArgs.Regions :
              \/ callArgs.Regions[i] = GlobalRegion
              \/ ListContainsElement(callRet.enabled, callArgs.Regions[i])

\* A Query that excluded one enabled region was validated: an enabled region
\* and "global" are left.
C20_Witness ==
    /\ ValidateSucceeded
    /\ callArgs.ExcludeRegions # <<>>
    /\ Len(callArgs.Regions) = 2
    /\ callArgs.Regions[2] = GlobalRegion
    /\ ListContainsElement(callRet.enabled, callArgs.Regions[1])

(***************************************************************************)
(* GetAllResources                                                         *)
(***************************************************************************)

\* GetAllResources returned an inventory.
DiscoveryReturned ==
    callRet.fn = "GetAllResources" /\ callRet.status = "returned" /\ callRet.err = NilErr

\* C21: a failed list call for one resource type is not fatal and counts as
\* zero resources of that type: discovery does not crash on it, and when it
\* has returned the inventory, every region and type whose list call failed
\* is recorded there with no identifier.
C21_ListFailureNotFatal ==
    callRet.fn = "GetAllResources" =>
        /\ callRet.status # "panicked"
        /\ DiscoveryReturned =>
              \A x \in DOMAIN callRet.printed :
                  /\ callRet.printed[x][1] \in DOMAIN account
                  /\ \E y \in DOMAIN account[callRet.printed[x][1]] :
                        /\ account[callRet.printed[x][1]][y].TypeName = callRet.printed[x][2]
                        /\ account[callRet.printed[x][1]][y].Identifiers = <<>>

\* C22: in the inventory GetAllResources returns, a region has an entry only
\* if an identifier of some type was found there.
C22_RegionKeyOnlyWithResources ==
    DiscoveryReturned =>
        \A r \in DOMAIN account :
            \E y \in DOMAIN account[r] : account[r][y].Identifiers # <<>>

\* The time the remote resource with this identifier was created.
CreatedAt(region, type, id) ==
    LET list == RemoteResources[region][type]
    IN  list[CHOOSE j \in DOMAIN list : list[j].Identifier = id].created

\* C23: discovery never records the identifier of a resource that was
\* created after the ExcludeAfter cutoff.
C23_NewerThanCutoffNotRecorded ==
    callRet.fn = "GetAllResources" =>
        \A r \in DOMAIN account :
            \A y \in DOMAIN account[r] :
                \A j \in DOMAIN account[r][y].Identifiers :
                    CreatedAt(r, account[r][y].TypeName, account[r][y].Identifiers[j])
                        <= callArgs.excludeAfter

(***************************************************************************)
(* GetEnabledRegions                                                       *)
(***************************************************************************)

EnabledReturned == callRet.fn = "GetEnabledRegions"

\* The positions of the candidates whose probe has the given answers.
Answering(kinds) == { i \in DOMAIN regionsToTry : callArgs.probes[i] \in kinds }

Least(S) == CHOOSE i \in S : \A j \in S : i <= j

\* C24 as stated: the candidates are tried in order, a candidate whose probe
\* fails (its configuration cannot be loaded or its DescribeRegions call
\* fails) is passed over, the first candidate that can be probed gives the
\* result, and the call fails only when every candidate has been tried.
C24_NextCandidateOnAnyFailure ==
    EnabledReturned =>
        IF Answering({"ok"}) # {}
        THEN /\ callRet.err = NilErr
             /\ callRet.regions = callArgs.answer
             /\ callRet.tried = Least(Answering({"ok"}))
        ELSE /\ callRet.err # NilErr
             /\ callRet.tried = Len(regionsToTry)

\* C24, amended: the candidates are tried in order and a candidate whose
\* DescribeRegions call fails is passed over.  The first candidate for which
\* that is not so decides: its regions are the result if it can be probed,
\* and if its configuration cannot be loaded the call fails at once with
\* that error, with the later candidates untried.  When DescribeRegions
\* failed for every candidate the call fails with every candidate tried.
C24_NextCandidateOnDescribeFailure ==
    EnabledReturned =>
        LET deciding == Answering({"ok", "loadConfigErr"})
        IN  IF deciding = {}
            THEN /\ callRet.err.code = "NoEnabledRegions"
                 /\ callRet.tried = Len(regionsToTry)
            ELSE /\ callRet.tried = Least(deciding)
                 /\ IF callArgs.probes[Least(deciding)] = "ok"
                    THEN callRet.err = NilErr /\ callRet.regions = callArgs.answer
                    ELSE callRet.err.code = "LoadConfig" /\ callRet.regions = <<>>

\* DescribeRegions failed for the first candidates and a later one answered.
C24_Witness ==
    /\ EnabledReturned
    /\ callRet.err = NilErr
    /\ callRet.tried > 2
    /\ callRet.regions # <<>>
    /\ callArgs.probes[1] = "err"

(***************************************************************************)
(* AwsRegionResource lookups                                               *)
(***************************************************************************)

\* The identifiers recorded under exactly the type t, in order.
RECURSIVE RecordedUnder(_, _)
RecordedUnder(arr, t) ==
    IF arr = <<>> THEN <<>>
    ELSE (IF Head(arr).TypeName = t THEN Head(arr).Identifiers ELSE <<>>)
         \o RecordedUnder(Tail(arr), t)

\* C25: for every resource type t, CountOfResourceType(t) is the number of
\* identifiers recorded under t in the region, ResourceTypePresent(t) is
\* true exactly when that number is positive, and
\* IdentifiersForResourceType(t) returns exactly those identifiers.
C25_LookupsMatchRecorded ==
    callRet.fn = "CountOfResourceType" =>
        LET recorded == RecordedUnder(callArgs.arr, callArgs.resourceType)
        IN  /\ callRet.count = Len(recorded)
            /\ callRet.present <=> Len(recorded) > 0
            /\ callRet.identifiers = recorded

(***************************************************************************)
(* The report table                                                        *)
(***************************************************************************)

\* The identifiers Nuke was called for in a region, over all its batches.
RECURSIVE ProcessedIn(_, _)
ProcessedIn(region, j) ==
    IF j = 0 THEN 0
    ELSE ProcessedIn(region, j - 1)
         + (IF IsNuke(events[j]) /\ events[j].region = region THEN Len(events[j].batch) ELSE 0)

\* C26: the table rendered for a region is one header row followed by one
\* data row (of five columns, the last "nil" or the error text) per
\* identifier processed in the region; when a batch of two identifiers both
\* succeed, the table Nuke returns has exactly two rows and no error.
C26_ReportTable ==
    /\ \A j \in DOMAIN events :
          events[j].kind = "Render" =>
              /\ events[j].table # <<>>
              /\ events[j].table[1] = Header
              /\ Len(events[j].table) = 1 + ProcessedIn(events[j].region, j)
              /\ \A x \in 2..Len(events[j].table) : Len(events[j].table[x]) = 5
    /\ ( /\ NukeReturned
         /\ Len(tasks) = 2
         /\ \A k \in DOMAIN tasks : tasks[k].res.OperationStatus = "SUCCESS" )
       => /\ Len(nukeRet.tableData) = 2
          /\ nukeRet.err = <<>>

(***************************************************************************)
(* nukeAsync: submission failure, completion                               *)
(***************************************************************************)

\* The DeleteResource call of task k failed.
SubmissionFailed(k) == tasks[k].res.Error.call = "DeleteResource"

\* C27: when the DeleteResource call itself fails, the task records that
\* error in its outcome, leaves OperationStatus (and the other provider
\* fields) unset, never polls the status of the identifier, and terminates:
\* it is past its last statement or has only the completion signal left.
C27_SubmissionFailureEndsTask ==
    \A k \in DOMAIN tasks :
        SubmissionFailed(k) =>
            /\ tasks[k].pc \in {"signal", "done"}
            /\ tasks[k].res.Error.id = tasks[k].id
            /\ tasks[k].res.Error.code \in DeleteResponses \ {"ok"}
            /\ tasks[k].res.OperationStatus = ""
            /\ tasks[k].res.Operation = ""
            /\ tasks[k].res.StatusMessage = ""
            /\ tasks[k].obs = NoEvent
            /\ tasks[k].waitErr = NilErr
            /\ CopiesIn(<<CurRegion, tasks[k].res.TypeName, tasks[k].id>>, deleteCalls) = 1

\* A task whose submission failed has terminated while a sibling whose
\* submission succeeded is polling.
C27_Witness ==
    /\ pc = "fanout"
    /\ \E k \in DOMAIN tasks : SubmissionFailed(k) /\ tasks[k].pc = "done"
    /\ \E k \in DOMAIN tasks : tasks[k].pc = "status"

\* C28: Nuke cannot deadlock.  Each task sends to its own channel of
\* capacity 1, so a task never waits for the collector: once every task has
\* been started and none has a step left the join can return, every receive
\* of the collector finds a value, and, every remote call returning, Nuke
\* returns.
C28_NukeDoesNotDeadlock ==
    /\ []( (pc = "fanout" /\ ci > Len(tasks) /\ AllTasksDone) => wg = 0 )
    /\ []( (pc = "fanout" /\ ci > Len(tasks) /\ ~AllTasksDone) =>
              \E k \in DOMAIN tasks :
                  /\ tasks[k].pc \in {"delete", "wait", "status", "signal"}
                  /\ tasks[k].pc = "status" => Len(resultChans[k]) < 1 )
    /\ []( (pc = "collect" /\ ci <= Len(resultChans)) => resultChans[ci] # <<>> )
    /\ <>(pc = "returned")

\* Nuke has returned from a full batch; every outcome was on its channel
\* when the join returned and has been received.
C28_Witness ==
    /\ pc = "returned"
    /\ Len(tasks) = MaxBatchSize
    /\ AllTasksDone
    /\ ci = Len(tasks) + 1
    /\ \A k \in DOMAIN resultChans : resultChans[k] = <<>>
    /\ \A k \in DOMAIN tasks : tasks[k].id \in DOMAIN resultsMap

(***************************************************************************)
(* What NukeAllResources touches                                           *)
(***************************************************************************)

\* C29: DeleteResource is only ever called for a resource type and
\* identifier that the inventory records under a region of the regions
\* argument, and the inventory is never modified.
C29_OnlyInventoryTouched ==
    /\ account = Inventory
    /\ \A d \in BagToSet(deleteCalls) :
          /\ d[1] \in Range(regions)
          /\ d[1] \in DOMAIN Inventory
          /\ \E y \in DOMAIN Inventory[d[1]] :
                /\ Inventory[d[1]][y].TypeName = d[2]
                /\ d[3] \in Range(Inventory[d[1]][y].Identifiers)

\* The run has ended without error over a region list with a region that
\* has no entry in the inventory; resources of two regions were deleted.
C29_Witness ==
    /\ pc = "done"
    /\ ret.err = <<>>
    /\ \E r \in Range(regions) : r \notin DOMAIN account
    /\ \E d, e \in BagToSet(deleteCalls) : d[1] # e[1]

(***************************************************************************)
(* Termination of the region processing                                    *)
(***************************************************************************)

\* The number of Nuke invocations so far for a resource type of a region.
NukeCalls(region, type) ==
    Cardinality({ j \in DOMAIN events :
                     IsNuke(events[j]) /\ events[j].region = region /\ events[j].type = type })

\* The statements a goroutine still has to execute, at most.
StepsLeft(t) ==
    CASE t.pc = "none" -> 5
      [] t.pc = "delete" -> 4
      [] t.pc = "wait" -> 3
      [] t.pc = "status" -> 2
      [] t.pc = "signal" -> 1
      [] t.pc = "done" -> 0

RECURSIVE TaskRank(_)
TaskRank(k) == IF k = 0 THEN 0 ELSE StepsLeft(tasks[k]) + TaskRank(k - 1)

\* Upper bounds of the ranks of one Nuke call, of one resource type and of
\* one region, for the inventory of the model.
StageMax == 6 * MaxBatchSize + 4
BatchMax == (MaxBatchSize + 2) * (StageMax + 1)
RegionMax == (Len(Inventory[defaultRegion]) + 1) * (BatchMax + 1) + 1

\* What is left of the Nuke call on the current batch.
NukeRank ==
    CASE pc = "batch" -> StageMax
      [] pc = "fanout" -> TaskRank(Len(tasks)) + MaxBatchSize + 3
      [] pc = "collect" -> (Len(resultChans) + 1 - ci) + 2
      [] pc = "returned" -> 1

\* A natural number that bounds the steps the run still takes: the regions,
\* resource types and batches that are left, and the rest of the Nuke call.
Measure ==
    IF pc = "done" THEN 0
    ELSE (Len(regions) + 1 - ri) * RegionMax +
         ( IF pc = "region" THEN RegionMax - 1
           ELSE (Len(ResourcesInRegion(CurRegion)) + 1 - ti) * (BatchMax + 1) +
                ( IF pc = "type" THEN BatchMax
                  ELSE (Len(batches) + 1 - bi) * (StageMax + 1) + NukeRank ) )

\* C30: the processing of a region terminates once every remote call
\* returns, also when every batch is throttled.  For each resource type with
\* N identifiers Nuke is invoked at most ceil(N / MaxBatchSize) times; every
\* step of the run lowers a natural-number measure, so no run goes on for
\* ever; and until the run has ended some step is always possible.
C30_RegionProcessingTerminates ==
    /\ []( \A r \in DOMAIN Inventory : \A y \in DOMAIN Inventory[r] :
              NukeCalls(r, Inventory[r][y].TypeName)
                  <= (Len(Inventory[r][y].Identifiers) + MaxBatchSize - 1) \div MaxBatchSize )
    /\ [](Measure >= 0)
    /\ [](pc # "done" => ENABLED Next)
    /\ [][Measure' < Measure]_vars

\* A run in which every batch of a type was throttled has ended: Nuke was
\* invoked once per batch.
C30_Witness ==
    /\ pc = "done"
    /\ \E r \in DOMAIN Inventory : \E y \in DOMAIN Inventory[r] :
          /\ NukeCalls(r, Inventory[r][y].TypeName) >= 2
          /\ \A j \in DOMAIN events :
                (IsNuke(events[j]) /\ events[j].region = r
                    /\ events[j].type = Inventory[r][y].TypeName) => Throttled(j)

(***************************************************************************)
(* Batch sizes on the region-processing path                               *)
(***************************************************************************)

\* An error is the TooManyResourcesTargetedErr of Nuke.
IsTooMany(err) == err.code = "TooManyResourcesTargeted"

\* C31: every batch nukeAllResourcesInRegion passes to Nuke has at most
\* MaxBatchSize identifiers (and at least one), so on this path Nuke never
\* returns TooManyResourcesTargetedErr and the run never ends with it.
C31_BatchWithinMaxBatchSize ==
    /\ \A j \in DOMAIN events :
          IsNuke(events[j]) =>
              /\ Len(events[j].batch) <= MaxBatchSize
              /\ Len(events[j].batch) >= 1
    /\ \A b \in DOMAIN batches : Len(batches[b]) <= MaxBatchSize
    /\ \A x \in DOMAIN nukeRet.err : ~IsTooMany(nukeRet.err[x])
    /\ \A x \in DOMAIN ret.err : ~IsTooMany(ret.err[x])

\* A type with more identifiers than MaxBatchSize was processed: Nuke was
\* called on a full batch and then on the remainder, and has returned.
C31_Witness ==
    /\ pc = "returned"
    /\ bi = 2
    /\ Len(CurResource.Identifiers) > MaxBatchSize
    /\ \E j \in DOMAIN events :
          /\ IsNuke(events[j])
          /\ events[j].type = CurResource.TypeName
          /\ Len(events[j].batch) = MaxBatchSize
    /\ IsNuke(events[Len(events)])
    /\ Len(events[Len(events)].batch) = Len(CurResource.Identifiers) - MaxBatchSize

====
